---------------------------- MODULE Spec2Model ----------------------------
(***************************************************************************)
(* State-machine model of src/script.js: the page's six UI bindings        *)
(* (header scroll watcher, mobile menu, portfolio filter, FAQ accordion,   *)
(* contact form, reveal-on-scroll) running on the browser's single UI      *)
(* thread.  Every handler is one atomic action (run to completion); the    *)
(* platform is modelled by a timer queue (setTimeout), a frame-callback    *)
(* queue (requestAnimationFrame) and a clock that advances in ticks.       *)
(***************************************************************************)
EXTENDS Integers, Sequences, FiniteSets, TLC

(***************************************************************************)
(* Program constants                                                       *)
(***************************************************************************)
SCROLL_THRESHOLD == 50

FILTER_ANIMATION_DURATION == 300

FORM_SUBMIT_DELAY == 1500

\* index * 20 in filterPortfolio's setTimeout
STAGGER_STEP == 20

\* MENU_ICONS.open / MENU_ICONS.closed
MENU_ICONS == [open |-> "x", closed |-> "menu"]

(***************************************************************************)
(* Bounds of the model                                                     *)
(***************************************************************************)
\* scroll offsets range over 0..MaxScrollY
MaxScrollY == 52

\* saturation of the ghost counter of scroll events between two frames
MaxBurst == 2

\* number of .portfolio-item elements
NumItems == 3

\* number of filter selections by click after the one initialization applies
MaxSelections == 1

\* number of .faq-item entries
NumFaq == 3

\* number of <a> links inside the mobile menu
NumLinks == 2

\* number of [data-aos] elements
NumAos == 2

\* number of entries one intersection callback delivers
MaxEntries == 2

\* number of submit events
MaxSubmits == 2

\* the clock advances by one stagger step per Tick: every delay of the
\* program (index * 20, 300, 1500) is a multiple of it
TickUnit == STAGGER_STEP

VARIABLES
  \* ---- the markup
  present,          \* the components whose required elements exist
  wired,            \* the components whose listeners init() attached
  initCompleted,    \* init() ran to its end
  \* ---- header scroll watcher
  scrollY,          \* window.scrollY
  scrolled,         \* header carries class "scrolled"
  scrollTimeout,    \* "null" or "handle" (the pending rAF id)
  \* ---- platform queues
  rafQueue,         \* pending requestAnimationFrame callbacks, in order
  timers,           \* pending setTimeout callbacks, in registration order
  \* ---- mobile menu
  menuOpen,         \* #mobile-menu carries class "open"
  menuIcon,         \* data-lucide attribute of the menu button's icon
  \* ---- portfolio filter
  btnActive,        \* set of filter buttons carrying class "active"
  itemClasses,      \* item -> subset of {"visible","hidden","removed"}
  \* ---- FAQ accordion
  faqActive,        \* set of .faq-item entries carrying class "active"
  \* ---- contact form
  submitContent,    \* submitBtn.innerHTML: "label" or "busy"
  submitDisabled,   \* submitBtn.disabled
  formFilled,       \* the form's fields hold user input
  \* ---- reveal on scroll
  aosAnimated,      \* set of [data-aos] elements carrying "aos-animate"
  \* ---- history (ghost) variables, read only by the properties
  hist

scrollVars == <<present, wired, initCompleted, scrollY, scrolled, scrollTimeout>>
menuVars   == <<menuOpen, menuIcon>>
filterVars == <<btnActive, itemClasses>>
faqVars    == <<faqActive>>
formVars   == <<submitContent, submitDisabled, formFilled>>
aosVars    == <<aosAnimated>>
vars == <<present, wired, initCompleted, scrollY, scrolled, scrollTimeout,
          rafQueue, timers, menuOpen,
          menuIcon, btnActive, itemClasses, faqActive, submitContent,
          submitDisabled, formFilled, aosAnimated, hist>>

(***************************************************************************)
(* The page's elements (the structural contract of the markup)             *)
(***************************************************************************)
Items == 1..NumItems

\* data-category of the item at document position i: x, y, x, y, ...
Category(i) == IF i % 2 = 1 THEN "x" ELSE "y"

\* data-filter of each .filter-btn, in document order; "" is a button
\* without the attribute
FilterBtns == <<"all", "x", "y", "">>

Btns == 1..Len(FilterBtns)

Faqs == 1..NumFaq

Links == 1..NumLinks

AosElements == 1..NumAos

ScrollOffsets == 0..MaxScrollY

Min(a, b) == IF a < b THEN a ELSE b

(***************************************************************************)
(* Platform: setTimeout and requestAnimationFrame                          *)
(***************************************************************************)
\* a pending setTimeout callback: its closure and its remaining delay
Timer(kind, item, show, delay, content, disabled) ==
  [kind |-> kind, item |-> item, show |-> show, delay |-> delay,
   rem |-> delay, content |-> content, disabled |-> disabled]

\* timer k is the next to run: it is due, and so is no timer registered
\* before it (callbacks run in order of expiry, then of registration; Tick
\* lets no timer become overdue, so all due timers expire now)
CanFire(k) ==
  /\ timers[k].rem = 0
  /\ \A j \in 1..(k - 1) : timers[j].rem # 0

RemoveAt(seq, k) == SubSeq(seq, 1, k - 1) \o SubSeq(seq, k + 1, Len(seq))

\* time passes: only when no timer is due
Tick ==
  /\ timers # <<>>
  /\ \A k \in 1..Len(timers) : timers[k].rem > 0
  /\ timers' = [k \in 1..Len(timers) |->
                  [timers[k] EXCEPT !.rem = @ - TickUnit]]
  /\ hist' = [hist EXCEPT !.elapsed =
                 IF hist.lastFilter = "none" THEN @ ELSE @ + TickUnit]
  /\ UNCHANGED <<scrollVars, rafQueue, menuVars, filterVars, faqVars,
                 formVars, aosVars>>

(***************************************************************************)
(* Header scroll effect                                                    *)
(***************************************************************************)
\* faulty variant: the threshold itself already counts as scrolled
IsScrolledAtThreshold(y) == y >= SCROLL_THRESHOLD

\* window.scrollY > SCROLL_THRESHOLD
IsScrolled(y) == y > SCROLL_THRESHOLD

\* faulty variant: the throttle guard is dropped
AlwaysRequestFrame(timeout) == TRUE

\* the throttle guard of handleScroll: a frame callback is requested only
\* when none is pending
ShouldRequestFrame(timeout) == timeout = "null"

\* a scroll event at offset y: the handler handleScroll
handleScroll(y) ==
  /\ "header" \in wired
  /\ scrollY' = y
  /\ IF ShouldRequestFrame(scrollTimeout)
       THEN /\ scrollTimeout' = "handle"
            /\ rafQueue' = Append(rafQueue, [kind |-> "scroll", item |-> 0])
       ELSE UNCHANGED <<scrollTimeout, rafQueue>>
  /\ hist' = [hist EXCEPT !.burst = Min(@ + 1, MaxBurst)]
  /\ UNCHANGED <<present, wired, initCompleted, scrolled, timers, menuVars, filterVars, faqVars,
                 formVars, aosVars>>

\* the scroll listener, for any offset the window can be scrolled to
Scroll == \E y \in ScrollOffsets : handleScroll(y)

\* one frame callback applied to the state st = [scrolled, scrollTimeout,
\* itemClasses, evals]
RunCallback(cb, st) ==
  IF cb.kind = "scroll"
    THEN [st EXCEPT !.scrolled = IsScrolled(scrollY),
                    !.scrollTimeout = "null",
                    !.evals = @ + 1]
    ELSE [st EXCEPT !.itemClasses[cb.item] = @ \cup {"visible"}]

RECURSIVE RunCallbacks(_, _)
RunCallbacks(queue, st) ==
  IF queue = <<>> THEN st
  ELSE RunCallbacks(Tail(queue), RunCallback(Head(queue), st))

\* a rendered frame: every pending frame callback runs, in request order
AnimationFrame ==
  /\ rafQueue # <<>>
  /\ LET st == RunCallbacks(rafQueue,
                  [scrolled |-> scrolled, scrollTimeout |-> scrollTimeout,
                   itemClasses |-> itemClasses, evals |-> 0])
     IN /\ scrolled' = st.scrolled
        /\ scrollTimeout' = st.scrollTimeout
        /\ itemClasses' = st.itemClasses
        /\ hist' = [hist EXCEPT !.frameEvals = st.evals,
                                !.burstAtFrame = hist.burst,
                                !.burst = 0]
  /\ rafQueue' = <<>>
  /\ UNCHANGED <<present, wired, initCompleted, scrollY, timers, menuVars, btnActive, faqVars, formVars,
                 aosVars>>


(***************************************************************************)
(* Mobile menu toggle                                                      *)
(***************************************************************************)
\* the last two menu operations, each with the state it started from
LogMenu(op) ==
  LET e == [op |-> op, open |-> menuOpen, icon |-> menuIcon]
  IN IF Len(hist.menuLog) < 2 THEN Append(hist.menuLog, e)
     ELSE <<hist.menuLog[2], e>>

\* faulty variant: the two icon names are taken the wrong way round
IconSwapped(isOpen) == IF isOpen THEN MENU_ICONS.closed ELSE MENU_ICONS.open

\* faulty variant: the icon is not switched back on closing
IconAlwaysOpen(isOpen) == MENU_ICONS.open

\* classList.toggle('open') returns the new presence of the class
IconFor(isOpen) == IF isOpen THEN MENU_ICONS.open ELSE MENU_ICONS.closed

\* a click on #menu-btn
toggleMenu ==
  /\ "menu" \in wired
  /\ menuOpen' = ~menuOpen
  /\ menuIcon' = IconFor(menuOpen')
  /\ hist' = [hist EXCEPT !.menuLog = LogMenu("toggle")]
  /\ UNCHANGED <<scrollVars, rafQueue, timers, filterVars, faqVars,
                 formVars, aosVars>>

\* faulty variant: closeMenu forgets the icon
ClosedMenuStaleIcon == <<FALSE, menuIcon>>

\* the state closeMenu leaves, as <<open, icon>>
ClosedMenu == <<FALSE, MENU_ICONS.closed>>

\* a click on navigation link l of the panel
closeMenu(l) ==
  /\ "menu" \in wired
  /\ menuOpen' = ClosedMenu[1]
  /\ menuIcon' = ClosedMenu[2]
  /\ hist' = [hist EXCEPT !.menuLog = LogMenu("close")]
  /\ UNCHANGED <<scrollVars, rafQueue, timers, filterVars, faqVars,
                 formVars, aosVars>>

ClickNavLink == \E l \in Links : closeMenu(l)

(***************************************************************************)
(* FAQ accordion                                                           *)
(***************************************************************************)
\* faulty variant: the other entries are not closed
CloseNoFaq(active) == active

\* the entries left active once every .faq-item has been closed
CloseAllFaq(active) == {}

\* faulty variant: the clicked entry is opened whether it was active or not
FaqAfterToggleAlwaysOpen(active, clicked) == CloseAllFaq(active) \cup {clicked}

\* toggleFAQItem(clickedItem): the set of active entries afterwards
FaqAfterToggle(active, clicked) ==
  LET isActive == clicked \in active
      closed == CloseAllFaq(active)
  IN IF ~isActive THEN closed \cup {clicked} ELSE closed

\* a click on the question of entry q
toggleFAQItem(q) ==
  /\ "faq" \in wired
  /\ faqActive' = FaqAfterToggle(faqActive, q)
  /\ hist' = [hist EXCEPT !.faqClicks = Min(@ + 1, 2)]
  /\ UNCHANGED <<scrollVars, rafQueue, timers, menuVars, filterVars,
                 formVars, aosVars>>

ClickFaqQuestion == \E q \in Faqs : toggleFAQItem(q)

(***************************************************************************)
(* Animate on scroll                                                       *)
(***************************************************************************)
\* the batches of entries an intersection callback can be handed: each entry
\* names its target and whether it is intersecting at the threshold
Entry == [target : AosElements, isIntersecting : BOOLEAN]

EntryLists == UNION {[1..n -> Entry] : n \in 1..MaxEntries}

\* faulty variant: an element that leaves the viewport loses the tag
ObserveEntryUnreveal(animated, entry) ==
  IF entry.isIntersecting THEN animated \cup {entry.target}
  ELSE animated \ {entry.target}

\* the body of entries.forEach: the elements tagged after one entry
ObserveEntry(animated, entry) ==
  IF entry.isIntersecting THEN animated \cup {entry.target} ELSE animated

RECURSIVE ObserveEntries(_, _, _)
\* folds the entries in order; st = [animated, seen, gains]
ObserveEntries(entries, k, st) ==
  IF k > Len(entries) THEN st
  ELSE LET e == entries[k]
           after == ObserveEntry(st.animated, e)
           gained == e.target \in after /\ e.target \notin st.animated
       IN ObserveEntries(entries, k + 1,
            [animated |-> after,
             seen |-> IF e.isIntersecting THEN st.seen \cup {e.target}
                      ELSE st.seen,
             gains |-> IF gained
                         THEN [st.gains EXCEPT ![e.target] = Min(@ + 1, 2)]
                         ELSE st.gains,
             left |-> st.left \cup
                        (IF ~e.isIntersecting /\ e.target \in st.animated
                           THEN {e.target} ELSE {})])

\* the IntersectionObserver callback
IntersectionCallback ==
  \E entries \in EntryLists :
    "aos" \in wired /\
    LET st == ObserveEntries(entries, 1,
                [animated |-> aosAnimated, seen |-> hist.aosSeen,
                 gains |-> hist.aosGains, left |-> hist.aosLeft])
    IN /\ aosAnimated' = st.animated
       /\ hist' = [hist EXCEPT !.aosSeen = st.seen, !.aosGains = st.gains,
                               !.aosLeft = st.left]
       /\ UNCHANGED <<scrollVars, rafQueue, timers, menuVars, filterVars,
                      faqVars, formVars>>

(***************************************************************************)
(* Portfolio filtering                                                     *)
(***************************************************************************)
\* shouldShow of filterPortfolio for the item at document position i
ShouldShow(filterValue, i) ==
  filterValue = "all" \/ Category(i) = filterValue

\* faulty variant: the buttons that do not match keep the class
ActiveAfterKeep(active, filterValue) ==
  active \cup {b \in Btns : FilterBtns[b] = filterValue}

\* "Update active button state": the buttons active after the forEach
ActiveAfter(active, filterValue) ==
  {b \in Btns : IF FilterBtns[b] = filterValue THEN TRUE ELSE FALSE}

\* faulty variant: the delays start at one step
StaggerDelayFromOne(i) == i * STAGGER_STEP

\* the delay of the item at document position i (index i - 1)
StaggerDelay(i) == (i - 1) * STAGGER_STEP

\* the setTimeout calls of one filterPortfolio, in document order
StaggerTimers(filterValue) ==
  [i \in 1..NumItems |->
     Timer("stagger", i, ShouldShow(filterValue, i), StaggerDelay(i),
           "", FALSE)]

\* filterPortfolio(filterValue) as a function of the state it touches
FilterResult(filterValue, active, tms, h) ==
  IF filterValue = ""
    THEN [active |-> active, timers |-> tms, hist |-> h]
    ELSE [active |-> ActiveAfter(active, filterValue),
          timers |-> tms \o StaggerTimers(filterValue),
          hist |-> [h EXCEPT !.lastFilter = filterValue,
                             !.applied = Min(@ + 1, 2),
                             !.elapsed = 0,
                             !.appliedAt = [i \in Items |-> -1]]]

\* history of the clicks around the first selection: with the probe
\* "novalue" a click on a button without value before the first selection
\* is noted, and so is the selection that follows it; with the probe
\* "duplicate" a click on the active button after the first selection is
\* noted; the next selection clears the note
NoteAt(kind) == IF kind = "novalue" THEN 0 ELSE 1

NoteClick(h, kind) ==
  IF kind = "select"
    THEN [h EXCEPT !.noop = IF @ = "novalue" THEN "novalue-select" ELSE "none"]
    ELSE IF kind = h.probe /\ h.noop = "none" /\ h.nSel = NoteAt(kind)
           THEN [h EXCEPT !.noop = kind]
           ELSE h

filterPortfolio(filterValue) ==
  LET r == FilterResult(filterValue, btnActive, timers, hist)
  IN /\ btnActive' = r.active
     /\ timers' = r.timers
     /\ hist' = NoteClick([r.hist EXCEPT !.nSel = @ + 1], "select")

\* faulty variant: the check for the active button is dropped
IsDuplicateNever(b) == FALSE

\* the click handler's early return for the button that is already active
IsDuplicate(b) == b \in btnActive

\* faulty variant: a missing data-filter falls back to "all"
ClickValueOrAll(target) ==
  IF FilterBtns[target] = "" THEN "all" ELSE FilterBtns[target]

\* btn.getAttribute('data-filter') of the clicked button; "" when missing
ClickValue(target) == FilterBtns[target]

\* the branch the click listener takes for a click on target; target 0 is a
\* click inside the container but outside every .filter-btn
ClickKind(target) ==
  IF target = 0 THEN "outside"
  ELSE IF ClickValue(target) = "" THEN "novalue"
  ELSE IF IsDuplicate(target) THEN "duplicate"
  ELSE "select"

\* the delegated click listener of .filter-container, for a click on target
FilterClickOn(target) ==
  /\ "filter" \in wired
  /\ IF ClickKind(target) = "select"
       THEN /\ hist.nSel < MaxSelections
            /\ filterPortfolio(ClickValue(target))
       ELSE /\ UNCHANGED <<btnActive, timers>>
            /\ hist' = NoteClick(hist, ClickKind(target))
  /\ UNCHANGED <<scrollVars, rafQueue, menuVars, itemClasses, faqVars,
                 formVars, aosVars>>

FilterClick == \E target \in 0..Len(FilterBtns) : FilterClickOn(target)

\* the classes of an item after the "show" branch of the stagger callback
ShowClasses(cls) == cls \ {"hidden", "removed"}

\* faulty variant: the hide branch forgets the hidden tag
HideClassesUntagged(cls) == cls \ {"visible"}

\* the classes of an item after the "hide" branch of the stagger callback
HideClasses(cls) == (cls \ {"visible"}) \cup {"hidden"}

\* faulty variant: the deferred callback does not look at the hidden tag
RemovalClassesAlways(cls) == cls \cup {"removed"}

\* the classes of an item after the deferred removal callback
RemovalClasses(cls) ==
  IF "hidden" \in cls THEN cls \cup {"removed"} ELSE cls

\* history: timer k belongs to the most recent filterPortfolio call when no
\* stagger timer for its item was registered after it
IsLatestStagger(k) ==
  \A j \in (k + 1)..Len(timers) :
    ~(timers[j].kind = "stagger" /\ timers[j].item = timers[k].item)

\* history: the time since the most recent filterPortfolio call at which
\* its stagger callback for the item of timer k runs
NoteApplied(k) ==
  IF IsLatestStagger(k)
    THEN [hist EXCEPT !.appliedAt[timers[k].item] = hist.elapsed]
    ELSE hist

\* the callback of setTimeout(..., index * 20)
StaggerFire ==
  \E k \in 1..Len(timers) :
    /\ CanFire(k)
    /\ timers[k].kind = "stagger"
    /\ LET i == timers[k].item
       IN IF timers[k].show
            THEN /\ itemClasses' = [itemClasses EXCEPT ![i] = ShowClasses(@)]
                 /\ rafQueue' = Append(rafQueue, [kind |-> "show", item |-> i])
                 /\ timers' = RemoveAt(timers, k)
            ELSE /\ itemClasses' = [itemClasses EXCEPT ![i] = HideClasses(@)]
                 /\ rafQueue' = rafQueue
                 /\ timers' = Append(RemoveAt(timers, k),
                                Timer("remove", i, FALSE,
                                      FILTER_ANIMATION_DURATION, "", FALSE))
    /\ hist' = NoteApplied(k)
    /\ UNCHANGED <<scrollVars, menuVars, btnActive, faqVars, formVars,
                   aosVars>>

\* the callback of setTimeout(..., FILTER_ANIMATION_DURATION)
RemovalFire ==
  \E k \in 1..Len(timers) :
    /\ CanFire(k)
    /\ timers[k].kind = "remove"
    /\ itemClasses' = [itemClasses EXCEPT
                         ![timers[k].item] = RemovalClasses(@)]
    /\ timers' = RemoveAt(timers, k)
    /\ hist' = IF "hidden" \in itemClasses[timers[k].item] THEN hist
               ELSE [hist EXCEPT !.spared = @ \cup {timers[k].item}]
    /\ UNCHANGED <<scrollVars, rafQueue, menuVars, btnActive, faqVars,
                   formVars, aosVars>>

(***************************************************************************)
(* Contact form submission                                                 *)
(***************************************************************************)
\* handleFormSubmit up to its await: the button's state is captured in the
\* closure, the button is disabled and shows the spinner, the delay starts
handleFormSubmit ==
  /\ "form" \in wired
  /\ hist.nSubmits < MaxSubmits
  /\ timers' = Append(timers,
                 Timer("submit", 0, FALSE, FORM_SUBMIT_DELAY,
                       submitContent, submitDisabled))
  /\ submitDisabled' = TRUE
  /\ submitContent' = "busy"
  /\ hist' = [hist EXCEPT !.nSubmits = @ + 1]
  /\ UNCHANGED <<scrollVars, rafQueue, menuVars, filterVars, faqVars,
                 formFilled, aosVars>>

\* handleFormSubmit after its await: the success alert, the form's reset and
\* the finally block restoring what the closure captured
SubmitResume ==
  \E k \in 1..Len(timers) :
    /\ CanFire(k)
    /\ timers[k].kind = "submit"
    /\ formFilled' = FALSE
    /\ submitDisabled' = timers[k].disabled
    /\ submitContent' = timers[k].content
    /\ timers' = RemoveAt(timers, k)
    /\ hist' = [hist EXCEPT !.nDone = @ + 1]
    /\ UNCHANGED <<scrollVars, rafQueue, menuVars, filterVars, faqVars,
                   aosVars>>

\* the user types into a field of the form
EditForm ==
  /\ "form" \in wired
  /\ ~formFilled
  /\ formFilled' = TRUE
  /\ UNCHANGED <<scrollVars, rafQueue, timers, menuVars, filterVars, faqVars,
                 submitContent, submitDisabled, aosVars, hist>>

(***************************************************************************)
(* Initialization: the state init() leaves                                 *)
(***************************************************************************)
HistInit ==
  [burst |-> 0, burstAtFrame |-> 0, frameEvals |-> 0, menuLog |-> <<>>,
   lastFilter |-> "none", applied |-> 0, nSel |-> 0, faqClicks |-> 0,
   aosSeen |-> {}, aosGains |-> [e \in AosElements |-> 0], aosLeft |-> {},
   nSubmits |-> 0, nDone |-> 0, probe |-> "off", noop |-> "none",
   markup |-> {}, initApplied |-> 0, initFilter |-> "none",
   spared |-> {}, elapsed |-> 0, appliedAt |-> [i \in Items |-> -1]]

\* the markup marks at most one filter button active
InitialActiveSets == {{}} \cup {{b} : b \in Btns}

\* the markup marks at most one FAQ entry active
InitialFaqSets == {{}} \cup {{q} : q \in Faqs}

\* faulty variant: the active button of the markup is not consulted
InitialFilterAll(active) == "all"

\* "Set initial filter state": the value initPortfolioFilter applies for the
\* markup's active set; "" when it applies none
InitialFilter(active) ==
  IF active # {}
    THEN FilterBtns[CHOOSE b \in active : \A c \in active : b <= c]
    ELSE "all"

\* the components init() wires: each init function returns early when its
\* required elements are missing
Components == {"header", "menu", "filter", "faq", "form", "aos"}

\* init(): the init functions in the order they are called
InitOrder == <<"header", "menu", "filter", "faq", "form", "aos">>

\* faulty variant: an init function uses its elements without the check
\* for absence and throws when they are missing
InitOutcomeUnguarded(c, p) == IF c \in p THEN "wired" ELSE "thrown"

\* the outcome of the init function of component c on a page holding the
\* components of p: it attaches its listeners, or returns early
InitOutcome(c, p) == IF c \in p THEN "wired" ELSE "returned"

\* init() from its k-th call on; an exception ends it
RECURSIVE RunInit(_, _, _)
RunInit(k, p, done) ==
  IF k > Len(InitOrder) THEN [wired |-> done, completed |-> TRUE]
  ELSE LET c == InitOrder[k]
           o == InitOutcome(c, p)
       IN IF o = "thrown" THEN [wired |-> done, completed |-> FALSE]
          ELSE RunInit(k + 1, p, IF o = "wired" THEN done \cup {c} ELSE done)

Wired(p) == RunInit(1, p, {}).wired

\* the state init() leaves on a page holding the components of p; probe
\* selects what the history notes
InitState(p, probe) ==
  /\ present = p
  /\ wired = Wired(p)
  /\ initCompleted = RunInit(1, p, {}).completed
  /\ scrollY = 0
  /\ scrolled = FALSE
  /\ scrollTimeout = "null"
  /\ rafQueue = <<>>
  /\ menuOpen = FALSE
  /\ menuIcon = MENU_ICONS.closed
  /\ IF "filter" \in Wired(p)
       THEN /\ \E active \in InitialActiveSets :
                 LET r == FilterResult(InitialFilter(active), active, <<>>,
                                       [HistInit EXCEPT !.probe = probe])
                 IN /\ btnActive = r.active
                    /\ timers = r.timers
                    /\ hist = [r.hist EXCEPT !.markup = active,
                                             !.initApplied = r.hist.applied,
                                             !.initFilter = r.hist.lastFilter]
            /\ itemClasses = [i \in Items |-> {"visible"}]
       ELSE /\ btnActive = {}
            /\ timers = <<>>
            /\ hist = [HistInit EXCEPT !.probe = probe]
            /\ itemClasses = [i \in Items |-> {}]
  /\ IF "faq" \in Wired(p) THEN faqActive \in InitialFaqSets
                          ELSE faqActive = {}
  /\ submitContent = "label"
  /\ submitDisabled = FALSE
  /\ formFilled = FALSE
  /\ aosAnimated = {}

InitWith(p) == InitState(p, "off")

Init == \E p \in SUBSET Components : InitWith(p)

(***************************************************************************)
(* Specifications                                                          *)
(***************************************************************************)
Next ==
  \/ Scroll
  \/ AnimationFrame
  \/ toggleMenu
  \/ ClickNavLink
  \/ FilterClick
  \/ StaggerFire
  \/ RemovalFire
  \/ ClickFaqQuestion
  \/ handleFormSubmit
  \/ SubmitResume
  \/ EditForm
  \/ IntersectionCallback
  \/ Tick

Spec == Init /\ [][Next]_vars

\* the scroll watcher alone
NextScroll == Scroll \/ AnimationFrame

SpecScroll == InitWith({"header"}) /\ [][NextScroll]_vars

FairSpecScroll == SpecScroll /\ WF_vars(AnimationFrame)

\* the menu, the accordion and the reveal observer
NextWidgets ==
  toggleMenu \/ ClickNavLink \/ ClickFaqQuestion \/ IntersectionCallback

SpecWidgets == InitWith({"menu", "faq", "aos"}) /\ [][NextWidgets]_vars

\* the portfolio filter with its timers and frames
NextFilter ==
  FilterClick \/ StaggerFire \/ RemovalFire \/ AnimationFrame \/ Tick

SpecFilter == InitWith({"filter"}) /\ [][NextFilter]_vars

\* the event loop keeps running: time passes and due callbacks run (exactly
\* one of the three is enabled while a timer is pending), and frames render
TimerProgress == StaggerFire \/ RemovalFire \/ Tick

FairSpecFilter ==
  /\ SpecFilter
  /\ WF_vars(TimerProgress)
  /\ WF_vars(AnimationFrame)

\* the portfolio filter, the history noting clicks on the active button
SpecFilterDuplicate == InitState({"filter"}, "duplicate") /\ [][NextFilter]_vars

\* the portfolio filter, the history noting clicks on a button without value
SpecFilterNoValue == InitState({"filter"}, "novalue") /\ [][NextFilter]_vars

\* pages that lack components: those holding at most one component, and
\* those holding only timer-free components
SparsePages ==
  {p \in SUBSET Components : Cardinality(p) <= 1}
    \cup SUBSET {"menu", "faq", "aos"}

\* every component, on the pages that lack some
SpecPage == (\E p \in SparsePages : InitWith(p)) /\ [][Next]_vars

\* the contact form with its timers
NextForm == handleFormSubmit \/ SubmitResume \/ EditForm \/ Tick

SpecForm == InitWith({"form"}) /\ [][NextForm]_vars

(***************************************************************************)
(* Properties                                                              *)
(***************************************************************************)
StaggerPending(i) ==
  \E k \in 1..Len(timers) : timers[k].kind = "stagger" /\ timers[k].item = i

RemovalPending(i) ==
  \E k \in 1..Len(timers) : timers[k].kind = "remove" /\ timers[k].item = i

SubmitPending == \E k \in 1..Len(timers) : timers[k].kind = "submit"

ScrollFramePending ==
  \E k \in 1..Len(rafQueue) : rafQueue[k].kind = "scroll"

Quiescent == timers = <<>> /\ rafQueue = <<>>

\* the item matches the most recent selection
Selected(i) == hist.lastFilter = "all" \/ Category(i) = hist.lastFilter

\* the state item i is claimed to settle in
Settled(i) ==
  hist.lastFilter # "none" =>
    IF Selected(i) THEN itemClasses[i] = {"visible"}
    ELSE {"hidden", "removed"} \subseteq itemClasses[i]

\* once the last selection's stagger callback of an unselected item has run,
\* the item is tagged hidden, and is tagged removed unless a removal callback
\* (300 units after a hide) is still pending for it
HiddenThenRemoved(i) ==
  (hist.lastFilter # "none" /\ ~Selected(i) /\ ~StaggerPending(i)) =>
    /\ "hidden" \in itemClasses[i]
    /\ "removed" \in itemClasses[i] \/ RemovalPending(i)

\* C1: after a filter selection V that no further selection follows, every
\* item of category V (every item when V is "all") eventually carries the
\* visible tag and neither hidden nor removed, for good; every other item
\* eventually carries hidden and removed, for good, the removed tag arriving
\* with the removal callback scheduled 300 units after the hide.
C1_FilterSettles ==
  /\ \A i \in Items : <>[]Settled(i)
  /\ [](\A i \in Items : HiddenThenRemoved(i))

C1_Witness ==
  /\ hist.nSel >= 1
  /\ hist.lastFilter = "x"
  /\ Quiescent
  /\ itemClasses[1] = {"visible"}
  /\ itemClasses[2] = {"hidden", "removed"}

\* C2: on a page with the filter, after initialization and any clicks,
\* exactly one filter button is active, and it is the button whose
\* data-filter is the value most recently applied by filterPortfolio.
C2_ExactlyOneActive ==
  "filter" \in present =>
    /\ Cardinality(btnActive) = 1
    /\ hist.lastFilter # "none" =>
         \A b \in btnActive : FilterBtns[b] = hist.lastFilter

C2_Witness ==
  hist.nSel >= 1 /\ hist.lastFilter = "y" /\ btnActive = {3}

\* C3: for any sequence of clicks on FAQ questions at most one FAQ entry is
\* active.
C3_AtMostOneFaq == Cardinality(faqActive) <= 1

C3_Witness == hist.faqClicks >= 2 /\ faqActive = {2}

\* C4: once every started form submission has completed, the submit button
\* has the label and the disabled-state it had before the first submission.
C4_ButtonRestored ==
  (hist.nSubmits > 0 /\ hist.nDone = hist.nSubmits) =>
    (submitContent = "label" /\ ~submitDisabled)

\* C5: while a started submission is still waiting out its delay the submit
\* button is disabled and shows the busy label.
C5_BusyWhilePending ==
  SubmitPending => (submitDisabled /\ submitContent = "busy")

\* C6: starting at offset 0 with the header unflagged, every scroll event
\* leaves a frame callback pending, a pending callback eventually runs, and
\* whenever no frame callback is pending the header carries "scrolled" iff
\* the scroll offset exceeds 50.
C6_HeaderFollowsScroll ==
  /\ [](~ScrollFramePending => (scrolled <=> scrollY > 50))
  /\ [][Scroll => ScrollFramePending']_vars
  /\ (ScrollFramePending ~> ~ScrollFramePending)

C6_Witness ==
  /\ hist.burstAtFrame >= 1
  /\ ~ScrollFramePending
  /\ scrollY > 50
  /\ scrolled

\* C7: for any burst of scroll events at most one scroll frame callback is
\* pending, and a frame re-evaluates the header flag at most once.
C7_OneCheckPerFrame ==
  /\ Cardinality({k \in 1..Len(rafQueue) : rafQueue[k].kind = "scroll"}) <= 1
  /\ hist.frameEvals <= 1

C7_Witness == hist.burstAtFrame >= 2 /\ hist.frameEvals = 1

\* C8: after two consecutive clicks on the menu trigger the panel's open flag
\* and the icon identifier are what they were before the two clicks.
C8_ToggleTwice ==
  (/\ Len(hist.menuLog) = 2
   /\ hist.menuLog[1].op = "toggle"
   /\ hist.menuLog[2].op = "toggle") =>
    (menuOpen = hist.menuLog[1].open /\ menuIcon = hist.menuLog[1].icon)

C8_Witness ==
  /\ Len(hist.menuLog) = 2
  /\ hist.menuLog[1].op = "toggle"
  /\ hist.menuLog[2].op = "toggle"
  /\ hist.menuLog[1].open
  /\ menuOpen

\* C9: a click on a navigation link while the panel is open leaves the panel
\* closed with the icon "menu", and a trigger click right after it leaves
\* the panel open with the icon "x".
C9_LinkCloses ==
  /\ (/\ Len(hist.menuLog) >= 1
      /\ hist.menuLog[Len(hist.menuLog)].op = "close"
      /\ hist.menuLog[Len(hist.menuLog)].open) =>
       (~menuOpen /\ menuIcon = "menu")
  /\ (/\ Len(hist.menuLog) = 2
      /\ hist.menuLog[1].op = "close"
      /\ hist.menuLog[1].open
      /\ hist.menuLog[2].op = "toggle") =>
       (menuOpen /\ menuIcon = "x")

C9_Witness ==
  /\ Len(hist.menuLog) = 2
  /\ hist.menuLog[1].op = "close"
  /\ hist.menuLog[1].open
  /\ hist.menuLog[2].op = "toggle"
  /\ menuOpen

\* C10: an observed element carries the animated tag exactly from the first
\* callback that reports it intersecting, the untagged-to-tagged transition
\* happens exactly once, and the tag is never removed.
C10_RevealOnce ==
  /\ [](\A e \in AosElements :
          /\ e \in aosAnimated <=> e \in hist.aosSeen
          /\ hist.aosGains[e] = IF e \in aosAnimated THEN 1 ELSE 0)
  /\ [][\A e \in AosElements : e \in aosAnimated => e \in aosAnimated']_vars

C10_Witness ==
  \E e \in AosElements :
    e \in aosAnimated /\ e \in hist.aosLeft /\ hist.aosGains[e] = 1

\* C11: a click on the filter button that carries the active class changes
\* no button's active class and no item's tags, and schedules no timer and
\* no frame callback.
C11_ActiveClickNoop ==
  [][\A b \in Btns :
       (b \in btnActive /\ FilterClickOn(b)) =>
         UNCHANGED <<btnActive, itemClasses, timers, rafQueue>>]_vars

C11_Witness ==
  /\ hist.noop = "duplicate"
  /\ hist.nSel >= 1
  /\ timers # <<>>

\* C18: a click on a filter button without data-filter changes no button's
\* active class and no item's tags and schedules nothing; a later click on
\* a button with a value that is not active still selects it: that button
\* alone becomes active and one timer per item is scheduled.
C18_NoValueClickIgnored ==
  [][\A b \in Btns :
       FilterClickOn(b) =>
         /\ FilterBtns[b] = "" =>
              UNCHANGED <<btnActive, itemClasses, timers, rafQueue>>
         /\ (hist.noop = "novalue" /\ FilterBtns[b] # "" /\ b \notin btnActive) =>
              /\ btnActive' = {b}
              /\ hist'.lastFilter = FilterBtns[b]
              /\ hist'.noop = "novalue-select"
              /\ Len(timers') = Len(timers) + NumItems]_vars

C18_Witness ==
  /\ hist.noop = "novalue-select"
  /\ btnActive = {3}
  /\ hist.lastFilter = "y"
  /\ \A i \in Items : StaggerPending(i)

\* C12: a click on the question of an expanded FAQ entry leaves no entry
\* expanded; a click on the question of any other entry leaves exactly that
\* entry expanded.
C12_FaqToggle ==
  [][\A q \in Faqs :
       toggleFAQItem(q) =>
         faqActive' = IF q \in faqActive THEN {} ELSE {q}]_vars

C12_Witness == hist.faqClicks >= 2 /\ faqActive = {}

\* init() on each of the pages the components can make up
InitIsolated ==
  \A p \in SUBSET Components :
    /\ RunInit(1, p, {}).completed
    /\ Wired(p) = p

\* C13: on every page, whichever components lack their elements, init runs
\* to its end and attaches the listeners of exactly the components whose
\* elements are present, and these stay attached; a component that is
\* absent never prevents a present one from being initialised.
C13_Isolation ==
  /\ InitIsolated
  /\ initCompleted
  /\ wired = present

C13_Witness ==
  /\ present = {"aos"}
  /\ wired = {"aos"}
  /\ initCompleted
  /\ aosAnimated # {}

\* C14: in every reachable state no portfolio item carries the visible tag
\* together with the hidden tag or the removed tag.
C14_ExclusiveTags ==
  \A i \in Items :
    "visible" \in itemClasses[i] =>
      /\ "hidden" \notin itemClasses[i]
      /\ "removed" \notin itemClasses[i]

\* C15: once every pending timer and frame callback has run, each item's
\* tags are given by the most recent selection alone: an item the selection
\* matches is visible and nothing else, any other item is hidden and
\* removed and not visible.
C15_FinalBySelection ==
  (Quiescent /\ hist.lastFilter # "none") =>
    \A i \in Items :
      itemClasses[i] = IF Selected(i) THEN {"visible"}
                       ELSE {"hidden", "removed"}

\* C16: within one filter selection the transition of the item at document
\* index i (position i + 1) is applied at delay 20 * i after the selection,
\* and never before the transition of an item at a smaller index.
C16_StaggerOrder ==
  \A i \in Items :
    hist.appliedAt[i] # -1 =>
      /\ hist.appliedAt[i] = 20 * (i - 1)
      /\ \A j \in 1..(i - 1) :
           /\ hist.appliedAt[j] # -1
           /\ hist.appliedAt[j] <= hist.appliedAt[i]

C16_Witness ==
  /\ hist.nSel >= 1
  /\ hist.lastFilter = "x"
  /\ hist.appliedAt = <<0, 20, 40>>
  /\ itemClasses[2] = {"hidden"}

\* the step is the deferred callback registered with delay 300 by a hide of
\* item i, run when it is due
DeferredStepOf(i) ==
  \E k \in 1..Len(timers) :
    /\ CanFire(k)
    /\ timers[k].kind = "remove"
    /\ timers[k].item = i
    /\ timers[k].delay = 300
    /\ timers' = RemoveAt(timers, k)

\* C17: the removed tag is added to an item only by the deferred step that
\* runs 300 after a hide of it, and only when the item carries the hidden
\* tag at that moment; so every item tagged removed is tagged hidden, and
\* the deferred step of an item that is not hidden does not tag it removed.
C17_RemovedOnlyWhenHidden ==
  /\ [](\A i \in Items :
          "removed" \in itemClasses[i] => "hidden" \in itemClasses[i])
  /\ [][\A i \in Items :
          /\ ("removed" \notin itemClasses[i] /\ "removed" \in itemClasses'[i])
               => (DeferredStepOf(i) /\ "hidden" \in itemClasses[i])
          /\ (DeferredStepOf(i) /\ "hidden" \notin itemClasses[i])
               => "removed" \notin itemClasses'[i]]_vars

C17_Witness ==
  /\ 1 \in hist.spared
  /\ itemClasses[1] = {"visible"}
  /\ \E i \in Items : "removed" \in itemClasses[i]

\* the data-filter value of the button the markup marks active
MarkupValue == FilterBtns[CHOOSE b \in hist.markup : TRUE]

\* C19 as claimed: when the filter component initialises, the filter is
\* applied exactly once during initialisation, with the value of the button
\* marked active if there is one and with "all" otherwise.
C19_AppliedOnce ==
  "filter" \in wired =>
    /\ hist.initApplied = 1
    /\ hist.initFilter = IF hist.markup = {} THEN "all" ELSE MarkupValue

\* C19 amended: when the filter component initialises, the filter is applied
\* once with "all" if no button is marked active, once with the value of the
\* button marked active if that button has a value, and not at all if the
\* button marked active has no value.
C19_InitialFilter ==
  "filter" \in wired =>
    IF hist.markup = {}
      THEN hist.initApplied = 1 /\ hist.initFilter = "all"
      ELSE IF MarkupValue # ""
             THEN hist.initApplied = 1 /\ hist.initFilter = MarkupValue
             ELSE hist.initApplied = 0 /\ hist.initFilter = "none"

C19_Witness ==
  /\ "filter" \in wired
  /\ hist.markup = {4}
  /\ hist.initApplied = 0
  /\ btnActive = {4}
  /\ \A i \in Items : itemClasses[i] = {"visible"}
  /\ timers = <<>>

\* C20: after any non-empty sequence of clicks on the menu trigger and on
\* navigation links, the icon identifier is "x" if the panel carries the
\* open flag and "menu" if it does not.
C20_IconMatchesPanel ==
  Len(hist.menuLog) >= 1 =>
    menuIcon = IF menuOpen THEN "x" ELSE "menu"

C20_Witness ==
  /\ Len(hist.menuLog) = 2
  /\ hist.menuLog[1].op = "close"
  /\ ~hist.menuLog[1].open
  /\ hist.menuLog[2].op = "toggle"
  /\ ~hist.menuLog[2].open
  /\ menuOpen
  /\ menuIcon = "x"

=============================================================================
